---- MODULE Spec2Model ----
(***************************************************************************)
(* ToothLit: a browser extension that toggles a forced dark mode per       *)
(* domain.  The model covers the background script (background.js: domain  *)
(* resolution, the preference store in browser.storage.local, the toolbar  *)
(* click handler, the tab-updated handler, the icon) and the content       *)
(* script (contentScript.js: the page's style override, its message        *)
(* listener and its startup check against the store).                      *)
(*                                                                         *)
(* Every `await` of the source is a scheduling point: a handler is a       *)
(* small process whose program counter names the promise it is waiting on, *)
(* and one action of the model is the code that runs between two awaits.   *)
(***************************************************************************)
EXTENDS Naturals, Sequences, FiniteSets, TLC

(* ---------------------------------------------------------------------- *)
(* Bounds of the model                                                     *)
(* ---------------------------------------------------------------------- *)
\* what the environment does in one behaviour: the number of toolbar clicks,
\* tab-updated events, posted messages, reloads and failed host operations
\* (storage get and set, setIcon, executeScript), all together
MaxEvents == 2

\* background handler invocations that can be in flight at the same time
Handlers == {1, 2}
\* open tabs
Tabs == {1, 2}

(* ---------------------------------------------------------------------- *)
(* URLs and the domain resolver                                            *)
(* ---------------------------------------------------------------------- *)
\* A URL string is modelled as the sequence of its lexical parts.
UrlA      == <<"https:", "//", "a.example", "/x">>
UrlAUpper == <<"https:", "//", "A.Example", ":443", "/path">>
UrlB      == <<"https:", "//", "b.example">>
UrlBlank  == <<"about:", "blank">>
UrlNoHost == <<"https:", "//">>
UrlNotUrl == <<"not a url">>
Urls == {UrlA, UrlAUpper, UrlB, UrlBlank, UrlNoHost, UrlNotUrl}
\* what the tabs show: two domains, one domain twice, and a web page beside
\* a tab whose URL has no domain
OneWebPage == {<<UrlAUpper, UrlBlank>>, <<UrlB, UrlNotUrl>>}
TabUrlChoices ==
    OneWebPage \cup {<<UrlA, UrlB>>, <<UrlA, UrlAUpper>>, <<UrlA, UrlNoHost>>}

SpecialSchemes == {"https:", "http:"}
OtherSchemes   == {"about:"}
HostTokens     == {"a.example", "A.Example", "b.example"}

\* the parser lower-cases the host of a special-scheme URL
ToLower(host) ==
    CASE host = "A.Example" -> "a.example"
      [] OTHER -> host

\* the value `null`, and the domains that can be keys of the persisted map
Null == "<null>"
Domains == {"a.example", "b.example"}

\* new URL(url): [ok |-> FALSE] when the constructor throws a TypeError,
\* otherwise the hostname of the parsed URL (lower-cased, without the port;
\* the empty string for a URL whose scheme has no host, such as about:blank).
ParseURL(url) ==
    IF Len(url) = 0 \/ url[1] \notin (SpecialSchemes \cup OtherSchemes)
    THEN [ok |-> FALSE, hostname |-> ""]
    ELSE IF url[1] \in SpecialSchemes
         THEN IF Len(url) >= 3 /\ url[2] = "//" /\ url[3] \in HostTokens
              THEN [ok |-> TRUE, hostname |-> ToLower(url[3])]
              ELSE [ok |-> FALSE, hostname |-> ""]
         ELSE [ok |-> TRUE, hostname |-> ""]

\* a slip: an empty hostname is turned into null
getDomainFromUrlOrNull(url) ==
    IF ParseURL(url).ok /\ ParseURL(url).hostname # ""
    THEN ParseURL(url).hostname ELSE Null

\* getDomainFromUrl: the hostname, or null when the URL constructor throws
getDomainFromUrl(url) ==
    IF ParseURL(url).ok THEN ParseURL(url).hostname ELSE Null

\* `!domain` of the two listeners: null and the empty string are falsy
Falsy(domain) == domain = Null \/ domain = ""

(* ---------------------------------------------------------------------- *)
(* The persisted record                                                    *)
(* ---------------------------------------------------------------------- *)
SETTINGS_KEY == "toothlit_settings"

\* the object {}
EmptyMap == [d \in {} |-> TRUE]

\* all maps from some of the domains to booleans
DomainMaps == UNION {[S -> BOOLEAN] : S \in SUBSET Domains}

\* `settings[SETTINGS_KEY] || {}`
AllDomainsOf(settings) ==
    IF SETTINGS_KEY \in DOMAIN settings THEN settings[SETTINGS_KEY] ELSE EmptyMap

\* a slip: `allDomains[domain] || true`
DomainEntryOrTrue(allDomains, domain) ==
    IF domain \in DOMAIN allDomains THEN (allDomains[domain] \/ TRUE) ELSE TRUE

\* `allDomains[domain] || false`
DomainEntry(allDomains, domain) ==
    IF domain \in DOMAIN allDomains THEN allDomains[domain] ELSE FALSE

\* a slip: `domain in allDomains` used as the condition
TruthyIfPresent(allDomains, domain) == domain \in DOMAIN allDomains

\* `allDomains[domain]` used as a condition (contentScript.js)
Truthy(allDomains, domain) ==
    domain \in DOMAIN allDomains /\ allDomains[domain]

\* a slip: a domain that is switched off is deleted from the map
AssignOrDelete(allDomains, domain, isEnabled) ==
    [d \in IF isEnabled THEN (DOMAIN allDomains) \cup {domain}
           ELSE (DOMAIN allDomains) \ {domain} |->
        IF d = domain THEN isEnabled ELSE allDomains[d]]

\* `allDomains[domain] = isEnabled`
Assign(allDomains, domain, isEnabled) ==
    [d \in (DOMAIN allDomains) \cup {domain} |->
        IF d = domain THEN isEnabled ELSE allDomains[d]]

\* `{ [SETTINGS_KEY]: allDomains }`
SettingsRecord(allDomains) == [k \in {SETTINGS_KEY} |-> allDomains]

\* the records storage.local can hold: none yet, or a non-empty map (every
\* write stores a map that has at least the written domain)
StorageStates ==
    {[k \in {} |-> EmptyMap]} \cup
    {SettingsRecord(m) : m \in (DomainMaps \ {EmptyMap})}

(* ---------------------------------------------------------------------- *)
(* State                                                                   *)
(* ---------------------------------------------------------------------- *)
VARIABLES
    storage,     \* browser.storage.local: key -> value
    tabUrl,      \* tab -> the URL the tab shows
    icon,        \* tab -> the icon set of the toolbar action for that tab
    handler,     \* handler slot -> the invocation running in it
    page,        \* tab -> the page's document and content script
    inbox,       \* tab -> message events queued on the page's window
    events,      \* number of events (clicks, updates, posts, reloads) so far
    failures,    \* the host operations that have failed so far, in order
    lastWrite,   \* history: the (domain, value) of the latest storage.set
    lastSetter,  \* history: domain -> slot whose setDomainState wrote it last
    lastEvent,   \* history: the latest environment event
    run,         \* history: the clicks of an undisturbed run (see Disturbed)
    loaded,      \* history: the tabs for which onUpdated has reported that
                 \* the tab finished loading its URL
    toggles      \* history: domain -> the clicks dispatched for it (n) and
                 \* its initial stored value inverted n times (want)

\* the history variables record what happened; no action reads them
history == <<lastWrite, lastSetter, lastEvent, run, loaded, toggles>>

vars == <<storage, tabUrl, icon, handler, page, inbox, events, failures,
          lastWrite, lastSetter, lastEvent, run, loaded, toggles>>

(* ---------------------------------------------------------------------- *)
(* Background script: the functions                                        *)
(* ---------------------------------------------------------------------- *)
ICON_ON  == "icons/icon-on"
ICON_OFF == "icons/icon-off"
\* the icon of the manifest, shown until setIcon is called for the tab
ICON_DEFAULT == "default"

\* updateIcon: the icon set chosen for isEnabled
IconPath(isEnabled) == IF isEnabled THEN ICON_ON ELSE ICON_OFF

\* a slip: the catch of getDomainState returns true
GetDomainStateResultCatchTrue(settings, domain, readOk) ==
    IF readOk THEN DomainEntry(AllDomainsOf(settings), domain) ELSE TRUE

\* getDomainState: the value it resolves with, given what storage.get
\* produced (readOk = FALSE: storage.get rejected, the catch returns false)
GetDomainStateResult(settings, domain, readOk) ==
    IF readOk THEN DomainEntry(AllDomainsOf(settings), domain) ELSE FALSE

\* setDomainState, between its two awaits: the map it hands to storage.set
SetDomainStateMerge(settings, domain, isEnabled) ==
    Assign(AllDomainsOf(settings), domain, isEnabled)

\* `const newState = !currentState`
Invert(currentState) == ~currentState

\* the object the injected function posts on the page's window; `from`
\* records who posted it and is not visible to the receiver
MARKER == "toothlit-background"
Notification(isDark) ==
    [src |-> "self", hasData |-> TRUE, source |-> MARKER,
     action |-> IF isDark THEN "enableDarkMode" ELSE "disableDarkMode",
     from |-> "controller"]

(* ---------------------------------------------------------------------- *)
(* Background script: handler invocations                                  *)
(* ---------------------------------------------------------------------- *)
\* pc: the await the invocation is suspended at
\*   get_read   getDomainState awaits storage.get
\*   set_read   setDomainState awaits storage.get
\*   set_write  setDomainState awaits storage.set
\*   icon       updateIcon awaits action.setIcon
\*   exec       the click listener awaits scripting.executeScript
\*   idle       no invocation in this slot
\*   crashed    the listener's promise was rejected
\* reads, writes, iconCalls, execCalls count the host calls it has issued;
\* failed is the set of its host calls that rejected; error is set when a
\* rejection escapes the listener; pre, alone and stored are history: the
\* stored value of its domain when it was dispatched, whether no other
\* invocation was in flight during its life, and whether the store held its
\* new value for its domain when its storage.set had been carried out.
IdleHandler ==
    [kind |-> "none", pc |-> "idle", tab |-> 0, domain |-> Null,
     currentState |-> FALSE, newState |-> FALSE, allDomains |-> EmptyMap,
     reads |-> 0, writes |-> 0, iconCalls |-> 0, execCalls |-> 0,
     failed |-> {}, error |-> FALSE, pre |-> FALSE, alone |-> TRUE,
     stored |-> FALSE]

Free(h) == handler[h].pc \in {"idle", "crashed"}
\* the slot a new invocation takes: the lowest free one (slots are
\* interchangeable)
Takes(h) == Free(h) /\ \A g \in Handlers : g < h => ~Free(g)
InFlight(h) == ~Free(h)
NoneInFlight == \A h \in Handlers : Free(h)

\* a new invocation in slot h, if it does not return at once, ends the
\* solitude of those in flight
Dispatch(h, rec) ==
    [g \in Handlers |->
        IF g = h THEN rec
        ELSE IF InFlight(g) /\ rec.pc # "idle"
             THEN [handler[g] EXCEPT !.alone = FALSE]
        ELSE handler[g]]

StoredState(domain) == DomainEntry(AllDomainsOf(storage), domain)

\* a slip: the rejection is logged and thrown again
CaughtRethrows(rec, op) ==
    [rec EXCEPT !.failed = @ \cup {op}, !.error = TRUE]

\* what a rejected host call does to the invocation: every await of the
\* source sits in a try/catch that logs and goes on
Caught(rec, op) == [rec EXCEPT !.failed = @ \cup {op}]

\* a slip: `if (domain === null) return`
ClickAbortsOnNull(domain) == domain = Null

\* `if (!domain) return` of the click listener
ClickAborts(domain) == Falsy(domain)

\* a slip: the listener does not look at changeInfo.status
UpdateActsAnyStatus(status, hasUrl) == hasUrl

\* the guard of the tab-updated listener
UpdateActs(status, hasUrl) == status = "complete" /\ hasUrl

\* the listener returns and its invocation is gone; after an escaped
\* rejection the slot shows the unhandled error
Finish(rec) ==
    IF rec.error THEN [IdleHandler EXCEPT !.pc = "crashed", !.error = TRUE]
    ELSE IdleHandler

\* getDomainState(domain) is called: storage.get is issued
EnterGet(rec) == [rec EXCEPT !.pc = "get_read", !.reads = @ + 1]

\* a slip: the listener updates the icon before it persists
EnterSetIconFirst(rec) ==
    [rec EXCEPT !.pc = "icon", !.iconCalls = @ + 1]

\* setDomainState(domain, newState) is called: storage.get is issued
EnterSet(rec) ==
    IF rec.error THEN Finish(rec)
    ELSE [rec EXCEPT !.pc = "set_read", !.reads = @ + 1]

\* setDomainState has its map: storage.set is issued
EnterWrite(rec, allDomains) ==
    [rec EXCEPT !.pc = "set_write", !.writes = @ + 1, !.allDomains = allDomains]

\* updateIcon(tabId, isEnabled) is called: action.setIcon is issued
EnterIcon(rec) ==
    IF rec.error THEN Finish(rec)
    ELSE [rec EXCEPT !.pc = "icon", !.iconCalls = @ + 1,
                     !.allDomains = EmptyMap]

\* scripting.executeScript is issued
EnterExec(rec) ==
    IF rec.error THEN Finish(rec)
    ELSE [rec EXCEPT !.pc = "exec", !.execCalls = @ + 1]

\* a slip: the catch of setDomainState tries the write again
AfterWriteFailedRetry(rec) ==
    [Caught(rec, "set_write") EXCEPT !.writes = @ + 1]

\* setDomainState after storage.set rejected: the catch logs, the function
\* returns, and the listener goes on to updateIcon
AfterWriteFailed(rec) == EnterIcon(Caught(rec, "set_write"))

\* the argument the listener passes to updateIcon
IconArg(rec) == IF rec.kind = "click" THEN rec.newState ELSE rec.currentState

(* ---------------------------------------------------------------------- *)
(* History                                                                 *)
(* ---------------------------------------------------------------------- *)
\* an environment event as the history keeps it: its kind (click, updated,
\* post, reload), the tab, whether the listener went past its guards, what
\* getDomainFromUrl returned for the tab's URL, and for onUpdated the
\* changeInfo.status and whether tab.url was set
Event(kind, t, acted, domain, status, hasUrl) ==
    [kind |-> kind, tab |-> t, acted |-> acted, domain |-> domain,
     status |-> status, hasUrl |-> hasUrl]

\* the tally of clicks after one more click for domain
Toggled(domain) ==
    [toggles EXCEPT ![domain] = [n |-> @.n + 1, want |-> ~@.want]]

MayFail == events + Len(failures) < MaxEvents

MayHappen == events + Len(failures) < MaxEvents

\* the failures after a host operation op that succeeded (ok) or not
Failures(ok, op) == IF ok THEN failures ELSE Append(failures, op)

\* An undisturbed run: the store was empty at the start, and all that has
\* happened since are the startup checks of the pages, clicks on one tab,
\* each dispatched when the tab's page had finished its startup check and
\* processed every message and no invocation was in flight, and the
\* deliveries of their notifications; nothing failed.  run.clicks counts the
\* clicks of the run that have completed.
Disturbed == [clean |-> FALSE, tab |-> 0, clicks |-> 0]

RunAfter(ok) == IF ok THEN run ELSE Disturbed

RunAfterClick(t) ==
    IF /\ run.clean
       /\ run.tab \in {0, t}
       /\ NoneInFlight
       /\ ~Falsy(getDomainFromUrl(tabUrl[t]))
       /\ page[t].startup = "done"
       /\ inbox[t] = <<>>
    THEN [run EXCEPT !.tab = t]
    ELSE Disturbed

RunAfterExec(ok) ==
    IF ok /\ run.clean THEN [run EXCEPT !.clicks = @ + 1] ELSE Disturbed

(* ---------------------------------------------------------------------- *)
(* Background script: the listeners, one action per run between awaits     *)
(* ---------------------------------------------------------------------- *)
\* browser.action.onClicked fires for tab t; the listener runs up to its
\* first await
Click(h, t) ==
    /\ Takes(h)
    /\ MayHappen
    /\ LET domain == getDomainFromUrl(tabUrl[t])
           start  == [IdleHandler EXCEPT !.kind = "click", !.tab = t,
                                         !.domain = domain]
           rec    == IF ClickAborts(domain) THEN Finish(start)
                     ELSE EnterGet([start EXCEPT
                                      !.pre = StoredState(domain),
                                      !.alone = NoneInFlight])
       IN  /\ handler' = Dispatch(h, rec)
           /\ lastEvent' = Event("click", t, ~ClickAborts(domain), domain,
                                  "", TRUE)
           /\ toggles' = IF ClickAborts(domain) THEN toggles
                          ELSE Toggled(domain)
    /\ events' = events + 1
    /\ run' = RunAfterClick(t)
    /\ UNCHANGED <<storage, tabUrl, icon, page, inbox, failures, lastWrite,
                   lastSetter, loaded>>

\* browser.tabs.onUpdated fires for tab t with changeInfo.status = status;
\* hasUrl tells whether tab.url is set
TabUpdated(h, t, status, hasUrl) ==
    /\ Takes(h)
    /\ MayHappen
    /\ LET domain == getDomainFromUrl(tabUrl[t])
           start  == [IdleHandler EXCEPT !.kind = "updated", !.tab = t]
           acts   == UpdateActs(status, hasUrl) /\ ~Falsy(domain)
           rec    == IF acts
                     THEN EnterGet([start EXCEPT
                                      !.domain = domain,
                                      !.pre = StoredState(domain),
                                      !.alone = NoneInFlight])
                     ELSE Finish(start)
       IN  /\ handler' = Dispatch(h, rec)
           /\ lastEvent' = Event("updated", t, acts, domain, status, hasUrl)
           /\ loaded' = IF acts THEN loaded \cup {t} ELSE loaded
    /\ events' = events + 1
    /\ run' = Disturbed
    /\ UNCHANGED <<storage, tabUrl, icon, page, inbox, failures, lastWrite,
                   lastSetter, toggles>>

\* getDomainState's storage.get settles; the listener runs to its next await
GetRead(h, ok) ==
    /\ handler[h].pc = "get_read"
    /\ ok \/ MayFail
    /\ LET rec == handler[h]
           got == [(IF ok THEN rec ELSE Caught(rec, "get_read")) EXCEPT
                     !.currentState =
                         GetDomainStateResult(storage, rec.domain, ok)]
           nxt == IF rec.kind = "click"
                  THEN EnterSet([got EXCEPT
                                   !.newState = Invert(got.currentState)])
                  ELSE EnterIcon(got)
       IN  handler' = [handler EXCEPT ![h] = nxt]
    /\ failures' = Failures(ok, "get_read")
    /\ run' = RunAfter(ok)
    /\ UNCHANGED <<storage, tabUrl, icon, page, inbox, events, lastWrite,
                   lastSetter, lastEvent, loaded, toggles>>

\* setDomainState's storage.get settles
SetRead(h, ok) ==
    /\ handler[h].pc = "set_read"
    /\ ok \/ MayFail
    /\ LET rec == handler[h]
           nxt == IF ok
                  THEN EnterWrite(rec, SetDomainStateMerge(storage, rec.domain,
                                                           rec.newState))
                  ELSE EnterIcon(Caught(rec, "set_read"))
       IN  handler' = [handler EXCEPT ![h] = nxt]
    /\ failures' = Failures(ok, "set_read")
    /\ run' = RunAfter(ok)
    /\ UNCHANGED <<storage, tabUrl, icon, page, inbox, events, lastWrite,
                   lastSetter, lastEvent, loaded, toggles>>

\* setDomainState's storage.set is carried out and settles
SetWriteOk(h) ==
    /\ handler[h].pc = "set_write"
    /\ LET rec == handler[h]
       IN  /\ storage' = SettingsRecord(rec.allDomains)
           /\ lastWrite' = [domain |-> rec.domain, value |-> rec.newState]
           /\ lastSetter' = [lastSetter EXCEPT ![rec.domain] = h]
           /\ handler' = [handler EXCEPT ![h] =
                            EnterIcon([rec EXCEPT !.stored =
                                DomainEntry(rec.allDomains, rec.domain)
                                    = rec.newState])]
    /\ UNCHANGED <<tabUrl, icon, page, inbox, events, failures, lastEvent, run,
                   loaded, toggles>>

\* setDomainState's storage.set rejects
SetWriteFail(h) ==
    /\ handler[h].pc = "set_write"
    /\ MayFail
    /\ handler' = [handler EXCEPT ![h] = AfterWriteFailed(handler[h])]
    /\ failures' = Failures(FALSE, "set_write")
    /\ run' = Disturbed
    /\ UNCHANGED <<storage, tabUrl, icon, page, inbox, events, lastWrite,
                   lastSetter, lastEvent, loaded, toggles>>

\* updateIcon's action.setIcon settles
SetIcon(h, ok) ==
    /\ handler[h].pc = "icon"
    /\ ok \/ MayFail
    /\ LET rec == handler[h]
           got == IF ok THEN rec ELSE Caught(rec, "icon")
       IN  /\ icon' = IF ok THEN [icon EXCEPT ![rec.tab] = IconPath(IconArg(rec))]
                      ELSE icon
           /\ handler' = [handler EXCEPT ![h] =
                            IF rec.kind = "click" THEN EnterExec(got)
                            ELSE Finish(got)]
    /\ failures' = Failures(ok, "icon")
    /\ run' = RunAfter(ok)
    /\ UNCHANGED <<storage, tabUrl, page, inbox, events, lastWrite, lastSetter,
                   lastEvent, loaded, toggles>>

\* a slip: the catch of the click listener injects the script again
AfterExecFailedRetry(rec) ==
    [Caught(rec, "exec") EXCEPT !.execCalls = @ + 1]

\* the click listener after executeScript rejected: the catch logs and the
\* listener returns
AfterExecFailed(rec) == Finish(Caught(rec, "exec"))

\* executeScript settles: on success the injected function has posted the
\* notification on the tab's window
ExecuteScript(h, ok) ==
    /\ handler[h].pc = "exec"
    /\ ok \/ MayFail
    /\ LET rec == handler[h]
       IN  /\ inbox' = IF ok
                       THEN [inbox EXCEPT ![rec.tab] =
                               Append(@, Notification(rec.newState))]
                       ELSE inbox
           /\ handler' = [handler EXCEPT ![h] =
                            IF ok THEN Finish(rec) ELSE AfterExecFailed(rec)]
    /\ failures' = Failures(ok, "exec")
    /\ run' = RunAfterExec(ok)
    /\ UNCHANGED <<storage, tabUrl, icon, page, events, lastWrite, lastSetter,
                   lastEvent, loaded, toggles>>

(* ---------------------------------------------------------------------- *)
(* Content script: the page                                                *)
(* ---------------------------------------------------------------------- *)
\* page[t]:
\*   colorScheme  the color-scheme property of the root element's inline
\*                style ("" when it is not set)
\*   links        how many elements of the document have FALLBACK_STYLE_ID
\*   startup      the startup storage.get of the content script:
\*                none (no content script in this page), pending, fulfilled
\*                (the promise has its value, the callback has not run),
\*                done, failed
\*   settings     the value the startup storage.get was fulfilled with
\*   last         history: what acted on the document last (the startup
\*                callback or the message listener), the event the listener
\*                was called with, and the style before it acted

\* window.location.hostname
Hostname(url) == ParseURL(url).hostname

\* the content script is injected into web pages only
HasContentScript(url) == ParseURL(url).ok /\ Hostname(url) # ""

NoSettings == [k \in {} |-> EmptyMap]

NoEvent ==
    [src |-> "", hasData |-> FALSE, source |-> "", action |-> "",
     from |-> "none"]

FreshPage(url) ==
    [colorScheme |-> "", links |-> 0,
     startup |-> IF HasContentScript(url) THEN "pending" ELSE "none",
     settings |-> NoSettings,
     last |-> [what |-> "none", event |-> NoEvent, before |-> <<"", 0>>]]

\* a slip: the property is set and the stylesheet is not injected
enableDarkModePropertyOnly(doc) == [doc EXCEPT !.colorScheme = "dark"]

\* a slip: the stylesheet is appended without looking for the element
enableDarkModeNoLookup(doc) ==
    [doc EXCEPT !.colorScheme = "dark", !.links = doc.links + 1]

\* enableDarkMode
enableDarkMode(doc) ==
    [doc EXCEPT !.colorScheme = "dark",
                !.links = IF doc.links = 0 THEN 1 ELSE doc.links]

\* a slip: the stylesheet is removed and the property is left set
disableDarkModeKeepsProperty(doc) ==
    [doc EXCEPT !.links = IF doc.links > 0 THEN doc.links - 1 ELSE 0]

\* disableDarkMode
disableDarkMode(doc) ==
    [doc EXCEPT !.colorScheme = "",
                !.links = IF doc.links > 0 THEN doc.links - 1 ELSE 0]

\* a slip: the listener does not compare event.source with window
AcceptsAnyWindow(event) == event.hasData /\ event.source = MARKER

\* the checks of the message listener
Accepts(event) ==
    event.src = "self" /\ event.hasData /\ event.source = MARKER

\* the message listener
OnMessage(doc, event) ==
    IF Accepts(event)
    THEN IF event.action = "enableDarkMode" THEN enableDarkMode(doc)
         ELSE IF event.action = "disableDarkMode" THEN disableDarkMode(doc)
         ELSE doc
    ELSE doc

\* the `then` callback of the startup check
OnStartupSettings(doc, settings, domain) ==
    IF Truthy(AllDomainsOf(settings), domain) THEN enableDarkMode(doc) ELSE doc

\* what is visible of the style override
Style(doc) == <<doc.colorScheme, doc.links>>
Dark(doc)  == doc.colorScheme = "dark" /\ doc.links = 1
Light(doc) == doc.colorScheme = "" /\ doc.links = 0

\* messages that did not come from the toggle controller: posted by a script
\* of the page itself on its own window, or by another window (a frame, an
\* opener)
ForeignMessages ==
    {[src |-> IF who = "script" THEN "self" ELSE "other", hasData |-> TRUE,
      source |-> s, action |-> a, from |-> who] :
        who \in {"script", "frame"}, s \in {MARKER, "page"},
        a \in {"enableDarkMode", "disableDarkMode", "toggle"}}
    \cup
    {[src |-> IF who = "script" THEN "self" ELSE "other", hasData |-> FALSE,
      source |-> "", action |-> "", from |-> who] : who \in {"script", "frame"}}

\* the foreign messages that look exactly like the controller's
ForgedMessages ==
    {m \in ForeignMessages : m.from = "script" /\ Accepts(m)
                              /\ m.action # "toggle"}

\* the startup storage.get is carried out
StartupRead(t, ok) ==
    /\ page[t].startup = "pending"
    /\ ok \/ MayFail
    /\ page' = [page EXCEPT ![t] =
                  IF ok THEN [@ EXCEPT !.startup = "fulfilled",
                                       !.settings = storage]
                  ELSE [@ EXCEPT !.startup = "failed"]]
    /\ failures' = Failures(ok, "startup")
    /\ run' = RunAfter(ok)
    /\ UNCHANGED <<storage, tabUrl, icon, handler, inbox, events, lastWrite,
                   lastSetter, lastEvent, loaded, toggles>>

\* the `then` callback of the startup check runs
StartupThen(t) ==
    /\ page[t].startup = "fulfilled"
    /\ page' = [page EXCEPT ![t] =
                  [OnStartupSettings(@, @.settings, Hostname(tabUrl[t]))
                     EXCEPT !.startup = "done", !.settings = NoSettings,
                            !.last = [what |-> "startup", event |-> NoEvent,
                                      before |-> Style(page[t])]]]
    /\ UNCHANGED <<storage, tabUrl, icon, handler, inbox, events, failures,
                   history>>

\* the page's window dispatches its next message event
Deliver(t) ==
    /\ inbox[t] # <<>>
    /\ page' = [page EXCEPT ![t] =
                  [OnMessage(@, Head(inbox[t])) EXCEPT
                     !.last = [what |-> "message", event |-> Head(inbox[t]),
                               before |-> Style(page[t])]]]
    /\ inbox' = [inbox EXCEPT ![t] = Tail(@)]
    /\ UNCHANGED <<storage, tabUrl, icon, handler, events, failures, history>>

\* somebody posts m on the window of t's page
Post(t, m) ==
    /\ page[t].startup # "none"
    /\ MayHappen
    /\ inbox' = [inbox EXCEPT ![t] = Append(@, m)]
    /\ events' = events + 1
    /\ lastEvent' = Event("post", t, TRUE, Null, "", FALSE)
    /\ run' = Disturbed
    /\ UNCHANGED <<storage, tabUrl, icon, handler, page, failures, lastWrite,
                   lastSetter, loaded, toggles>>

\* the tab is reloaded: a new document, a new window, a new content script
Reload(t) ==
    /\ MayHappen
    /\ page' = [page EXCEPT ![t] = FreshPage(tabUrl[t])]
    /\ inbox' = [inbox EXCEPT ![t] = <<>>]
    /\ events' = events + 1
    /\ lastEvent' = Event("reload", t, TRUE, Null, "", FALSE)
    /\ run' = Disturbed
    /\ UNCHANGED <<storage, tabUrl, icon, handler, failures, lastWrite,
                   lastSetter, loaded, toggles>>

(* ---------------------------------------------------------------------- *)
(* The system                                                              *)
(* ---------------------------------------------------------------------- *)
\* the latest storage.set of the earlier sessions: none when there is no
\* record, else the write of one of the entries the map has
LastWrites(settings) ==
    IF SETTINGS_KEY \in DOMAIN settings
    THEN {[domain |-> d, value |-> settings[SETTINGS_KEY][d]] :
            d \in DOMAIN settings[SETTINGS_KEY]}
    ELSE {[domain |-> Null, value |-> FALSE]}

\* The browser has started with the extension installed: the store holds
\* whatever earlier sessions left in it, every tab shows a page whose
\* content script has just issued its startup check, no listener has run.
InitWith(urls) ==
    /\ storage \in StorageStates
    /\ tabUrl \in urls
    /\ icon = [t \in Tabs |-> ICON_DEFAULT]
    /\ handler = [h \in Handlers |-> IdleHandler]
    /\ page = [t \in Tabs |-> FreshPage(tabUrl[t])]
    /\ inbox = [t \in Tabs |-> <<>>]
    /\ events = 0
    /\ failures = <<>>
    /\ lastWrite \in LastWrites(storage)
    /\ lastSetter = [d \in Domains |-> 0]
    /\ lastEvent = Event("none", 0, FALSE, Null, "", FALSE)
    /\ run = [clean |-> storage = NoSettings, tab |-> 0, clicks |-> 0]
    /\ loaded = {}
    /\ toggles = [d \in Domains |-> [n |-> 0, want |-> StoredState(d)]]

\* the listeners of the background script
Background ==
    \/ \E h \in Handlers, t \in Tabs : Click(h, t)
    \/ \E h \in Handlers, t \in Tabs, status \in {"loading", "complete"},
          hasUrl \in BOOLEAN : TabUpdated(h, t, status, hasUrl)
    \/ \E h \in Handlers, ok \in BOOLEAN : GetRead(h, ok)
    \/ \E h \in Handlers, ok \in BOOLEAN : SetRead(h, ok)
    \/ \E h \in Handlers : SetWriteOk(h)
    \/ \E h \in Handlers : SetWriteFail(h)
    \/ \E h \in Handlers, ok \in BOOLEAN : SetIcon(h, ok)
    \/ \E h \in Handlers, ok \in BOOLEAN : ExecuteScript(h, ok)

\* the content scripts
Pages ==
    \/ \E t \in Tabs, ok \in BOOLEAN : StartupRead(t, ok)
    \/ \E t \in Tabs : StartupThen(t)
    \/ \E t \in Tabs : Deliver(t)

\* The whole extension with one web page open beside a tab that has no
\* domain; scripts of the page post look-alikes of the notification.
Init == InitWith(OneWebPage)

Next ==
    \/ Background
    \/ Pages
    \/ \E t \in Tabs, m \in ForgedMessages : Post(t, m)

Spec == Init /\ [][Next]_vars

\* The background script alone, with two tabs and no page running.
InitBackground == InitWith(TabUrlChoices)

NextBackground == Background

SpecBackground == InitBackground /\ [][NextBackground]_vars

\* The toggle path: the listeners of the background script and the content
\* scripts of the pages, which may be reloaded; nobody else posts messages.
NextToggle ==
    \/ Background
    \/ Pages
    \/ \E t \in Tabs : Reload(t)

SpecToggle == Init /\ [][NextToggle]_vars

\* Every promise of the host settles, every callback that is due runs and
\* every queued message event is dispatched: the invocation in a slot and
\* the page of a tab each take their next step.
Settle(h) ==
    \/ \E ok \in BOOLEAN : GetRead(h, ok)
    \/ \E ok \in BOOLEAN : SetRead(h, ok)
    \/ SetWriteOk(h)
    \/ SetWriteFail(h)
    \/ \E ok \in BOOLEAN : SetIcon(h, ok)
    \/ \E ok \in BOOLEAN : ExecuteScript(h, ok)

PageStep(t) ==
    \/ \E ok \in BOOLEAN : StartupRead(t, ok)
    \/ StartupThen(t)
    \/ Deliver(t)

\* one web page beside an internal page, the store empty or holding true
\* for the page's domain
InitLive ==
    /\ Init
    /\ tabUrl = <<UrlAUpper, UrlBlank>>
    /\ storage \in {NoSettings,
                    SettingsRecord([d \in {Hostname(UrlAUpper)} |-> TRUE])}

SpecLive ==
    /\ InitLive /\ [][NextToggle]_vars
    /\ \A h \in Handlers : WF_vars(Settle(h))
    /\ \A t \in Tabs : WF_vars(PageStep(t))

\* The content script alone: the pages, their reloads, and every kind of
\* message arriving, the controller's notifications among them.
NextPage ==
    \/ Pages
    \/ \E t \in Tabs : Reload(t)
    \/ \E t \in Tabs, isDark \in BOOLEAN : Post(t, Notification(isDark))
    \/ \E t \in Tabs, m \in ForeignMessages : Post(t, m)

SpecPage == Init /\ [][NextPage]_vars

(* ---------------------------------------------------------------------- *)
(* Properties of the preference store                                      *)
(* ---------------------------------------------------------------------- *)
\* the persisted map has the entry domain -> value
Contains(settings, domain, value) ==
    /\ SETTINGS_KEY \in DOMAIN settings
    /\ domain \in DOMAIN settings[SETTINGS_KEY]
    /\ settings[SETTINGS_KEY][domain] = value

\* the invocation in slot h has returned from setDomainState, and neither
\* of its storage operations failed
SetCompleted(h) ==
    /\ handler[h].kind = "click"
    /\ handler[h].pc \in {"icon", "exec"}
    /\ handler[h].failed \cap {"set_read", "set_write"} = {}

\* C1: Concurrent setDomainState calls for different domains do not lose
\* each other's update: whenever two invocations have both completed their
\* setDomainState(D1, v1) and setDomainState(D2, v2) without storage
\* failure, D1 # D2, and each was the last to write its domain, the
\* persisted map contains D1 -> v1 and D2 -> v2.
C1_NoLostUpdate ==
    \A h1, h2 \in Handlers :
        ( /\ h1 # h2
          /\ SetCompleted(h1) /\ SetCompleted(h2)
          /\ handler[h1].domain # handler[h2].domain
          /\ lastSetter[handler[h1].domain] = h1
          /\ lastSetter[handler[h2].domain] = h2 )
        => /\ Contains(storage, handler[h1].domain, handler[h1].newState)
           /\ Contains(storage, handler[h2].domain, handler[h2].newState)

\* the step is the settling of the storage.get of slot h's getDomainState
GetSettles(h) ==
    /\ handler[h].pc = "get_read"
    /\ handler'[h].pc # "get_read"

\* C2 as stated: when a setDomainState(D, v) has written the store (whatever
\* the map held before) and that write is still the latest one, a following
\* getDomainState(D) returns v.
C2_RoundTripAnyRead ==
    [][ \A h \in Handlers :
          ( /\ GetSettles(h)
            /\ lastWrite.domain = handler[h].domain )
          => handler'[h].currentState = lastWrite.value ]_vars

\* C2, amended: round trip.  When a setDomainState(D, v) has written the
\* store (whatever the map held before) and that write is still the latest
\* one, a following getDomainState(D) whose storage read succeeds returns v.
C2_RoundTrip ==
    [][ \A h \in Handlers :
          ( /\ GetSettles(h)
            /\ failures' = failures
            /\ lastWrite.domain = handler[h].domain )
          => handler'[h].currentState = lastWrite.value ]_vars

\* a getDomainState(D) has returned false where the run before it was one
\* click that stored D -> false over an entry D -> true
C2_Witness ==
    \E h \in Handlers :
        /\ handler[h].pc \in {"set_read", "icon"}
        /\ handler[h].failed = {}
        /\ handler[h].alone
        /\ events = 2 /\ failures = <<>>
        /\ lastWrite = [domain |-> handler[h].domain, value |-> FALSE]
        /\ handler[h].pre = FALSE
        /\ handler[h].currentState = FALSE
        /\ Contains(storage, handler[h].domain, FALSE)

\* C3: getDomainState(D) always yields a boolean and never an error: the
\* persisted value when D has an entry and the read succeeds, false when D
\* has no entry (also when there is no settings record at all) or when the
\* read fails.
C3_GetTotal ==
    [][ \A h \in Handlers :
          GetSettles(h) =>
            LET d      == handler[h].domain
                failed == failures' # failures
                result == handler'[h].currentState
            IN  /\ result \in BOOLEAN
                /\ ~handler'[h].error /\ handler'[h].pc # "crashed"
                /\ failed => result = FALSE
                /\ ~failed =>
                     IF SETTINGS_KEY \in DOMAIN storage
                        /\ d \in DOMAIN storage[SETTINGS_KEY]
                     THEN result = storage[SETTINGS_KEY][d]
                     ELSE result = FALSE ]_vars

\* a getDomainState whose read failed has returned false although the store
\* holds true for the domain
C3_Witness ==
    \E h \in Handlers :
        /\ handler[h].pc \in {"set_read", "icon"}
        /\ handler[h].failed = {"get_read"}
        /\ Contains(storage, handler[h].domain, TRUE)
        /\ handler[h].pre = TRUE
        /\ handler[h].currentState = FALSE

(* ---------------------------------------------------------------------- *)
(* Properties of the toggle controller                                     *)
(* ---------------------------------------------------------------------- *)
\* the step is one of the invocation in slot h
Moves(h) == [handler'[h] EXCEPT !.alone = handler[h].alone] # handler[h]

\* the step is the settling of slot h's executeScript
ExecSettles(h) ==
    /\ handler[h].pc = "exec"
    /\ Moves(h)

\* the step is a host operation op of slot h failing
Fails(h, op) ==
    /\ handler[h].pc = op
    /\ Moves(h)
    /\ failures' = Append(failures, op)

\* the notification for isDark is what was posted last on tab t's window
Posted(t, isDark) ==
    /\ Len(inbox'[t]) = Len(inbox[t]) + 1
    /\ SubSeq(inbox'[t], 1, Len(inbox[t])) = inbox[t]
    /\ LET m == inbox'[t][Len(inbox'[t])]
       IN  /\ m.src = "self" /\ m.hasData /\ m.source = "toothlit-background"
           /\ m.action = IF isDark THEN "enableDarkMode" ELSE "disableDarkMode"

\* a click that ran alone and without failure completes in this step
CompletesAlone(h) ==
    /\ ExecSettles(h)
    /\ handler[h].kind = "click"
    /\ handler[h].alone
    /\ handler[h].failed = {}
    /\ failures' = failures

\* the state an undisturbed run of n clicks on a tab showing domain d leaves
\* once the page has processed every message
AfterClicks(n) ==
    LET t == run.tab
        d == getDomainFromUrl(tabUrl[t])
        on == (n % 2 = 1)
    IN  /\ storage = SettingsRecord([x \in {d} |-> on])
        /\ icon[t] = (IF on THEN ICON_ON ELSE ICON_OFF)
        /\ IF on THEN Dark(page[t]) ELSE Light(page[t])

\* C4: A click on a tab whose URL resolves to D, run alone and without
\* failure, inverts the persisted state of D: with c the stored value before
\* the click (absent counts as false), when the handler completes the store
\* has the entry D -> ~c, the tab's icon is the "on" set iff ~c and the
\* notification posted to the page is enableDarkMode iff ~c.  And an
\* undisturbed run of one click from the empty store leaves {D: true}, icon
\* on, page Dark; of two clicks {D: false}, icon off, page Light.
C4_ClickInverts ==
    /\ [][ \A h \in Handlers :
             CompletesAlone(h) =>
               LET c == handler[h].pre
                   d == handler[h].domain
                   t == handler[h].tab
               IN  /\ Contains(storage', d, ~c)
                   /\ icon'[t] = (IF ~c THEN ICON_ON ELSE ICON_OFF)
                   /\ Posted(t, ~c) ]_vars
    /\ [](\A n \in 1..2 :
            ( /\ run.clean /\ run.clicks = n
              /\ NoneInFlight /\ inbox[run.tab] = <<>> )
            => AfterClicks(n))

\* two clicks in sequence from the empty store have completed and the page
\* has processed both notifications
C4_Witness ==
    /\ run.clean /\ run.clicks = 2
    /\ NoneInFlight /\ inbox[run.tab] = <<>>
    /\ page[run.tab].last.what = "message"
    /\ page[run.tab].last.event.action = "disableDarkMode"
    /\ page[run.tab].last.before = <<"dark", 1>>

\* the URL does not resolve to a domain: malformed, not a URL, or without a
\* hostname
NoDomain(url) == ~ParseURL(url).ok \/ ParseURL(url).hostname = ""

\* the step is the dispatch of a click on tab t
ClickOn(t) ==
    /\ events' = events + 1
    /\ lastEvent'.kind = "click"
    /\ lastEvent'.tab = t

\* C5: When the clicked tab's URL does not resolve to a domain, the click
\* listener does nothing: the persisted map is unchanged, no invocation is
\* left waiting on a storage read or write, an icon update or a script
\* injection, no icon changes and nothing is posted to any page.
C5_NoDomainNoEffect ==
    [][ \A t \in Tabs :
          (ClickOn(t) /\ NoDomain(tabUrl[t]))
          => /\ UNCHANGED <<storage, icon, page, inbox>>
             /\ handler' = handler ]_vars

\* a click on a tab showing about:blank (a URL that parses, without a
\* hostname) has been handled
C5_Witness ==
    /\ lastEvent.kind = "click" /\ ~lastEvent.acted
    /\ tabUrl[lastEvent.tab] = UrlBlank
    /\ NoneInFlight

\* C6: If executeScript rejects during a click there is no rollback and no
\* retry: the failing step changes neither the persisted map nor any icon
\* nor any page nor any message queue, and the handler completes normally;
\* so after a click that ran alone and otherwise without failure the map
\* still has the new value for the domain and the tab's icon still shows it.
C6_DeliveryFailure ==
    [][ \A h \in Handlers :
          Fails(h, "exec") =>
            /\ UNCHANGED <<storage, icon, page, inbox>>
            /\ handler'[h] = IdleHandler
            /\ (handler[h].alone /\ handler[h].failed = {}) =>
                 /\ Contains(storage', handler[h].domain, handler[h].newState)
                 /\ icon'[handler[h].tab] =
                      (IF handler[h].newState THEN ICON_ON ELSE ICON_OFF) ]_vars

\* a click on a Light page switched its domain on and could not deliver
C6_Witness ==
    \E t \in Tabs :
        /\ failures = <<"exec">> /\ events = 1
        /\ lastEvent.kind = "click" /\ lastEvent.tab = t /\ lastEvent.acted
        /\ NoneInFlight
        /\ Contains(storage, getDomainFromUrl(tabUrl[t]), TRUE)
        /\ icon[t] = ICON_ON
        /\ inbox[t] = <<>>
        /\ Light(page[t])

\* C7: A failed storage operation inside setDomainState (its read or its
\* write) leaves the persisted map as it was, is not retried (a call makes
\* at most one write attempt, and none after a failed read), and is not
\* raised to the caller: the listener goes on to updateIcon.
C7_SetFailure ==
    [][ /\ \A h \in Handlers : handler'[h].writes <= 1
        /\ \A h \in Handlers, op \in {"set_read", "set_write"} :
             Fails(h, op) =>
               /\ storage' = storage
               /\ handler'[h].pc = "icon"
               /\ ~handler'[h].error
               /\ handler'[h].writes = handler[h].writes ]_vars

\* the storage.set of a setDomainState has failed and the listener is at
\* updateIcon, the store still without the new value
C7_Witness ==
    \E h \in Handlers :
        /\ handler[h].pc = "icon"
        /\ handler[h].failed = {"set_write"}
        /\ handler[h].writes = 1
        /\ handler[h].alone
        /\ ~Contains(storage, handler[h].domain, handler[h].newState)

(* ---------------------------------------------------------------------- *)
(* Properties of the page styler                                           *)
(* ---------------------------------------------------------------------- *)
\* the event comes from the page's own window, carries the source marker
\* and asks for action
IsNotification(event, action) ==
    /\ event.src = "self"
    /\ event.hasData
    /\ event.source = "toothlit-background"
    /\ event.action = action

DarkStyle  == <<"dark", 1>>
LightStyle == <<"", 0>>

\* C8: In every state of a page, after any sequence of startup checks and
\* messages, the document has at most one element with the reserved id; and
\* an enable notification (or a startup check) that finds the page Dark
\* leaves it with exactly one such element and color-scheme dark.
C8_OneStylesheet ==
    \A t \in Tabs :
        /\ page[t].links <= 1
        /\ ( /\ page[t].last.before = DarkStyle
             /\ \/ page[t].last.what = "startup"
                \/ /\ page[t].last.what = "message"
                   /\ IsNotification(page[t].last.event, "enableDarkMode") )
           => Style(page[t]) = DarkStyle

\* an enable notification has been handled by a page that was Dark
C8_Witness ==
    \E t \in Tabs :
        /\ page[t].last.what = "message"
        /\ IsNotification(page[t].last.event, "enableDarkMode")
        /\ page[t].last.event.from = "controller"
        /\ page[t].last.before = DarkStyle
        /\ Style(page[t]) = DarkStyle

\* C9: Handling a disableDarkMode notification always leaves the page Light:
\* the color-scheme property is not set and no element has the reserved id,
\* whether the page was Dark or Light before.
C9_DisableLeavesLight ==
    \A t \in Tabs :
        ( /\ page[t].last.what = "message"
          /\ IsNotification(page[t].last.event, "disableDarkMode") )
        => Style(page[t]) = LightStyle

\* a disable notification has been handled by a Dark page, and one by a
\* Light page
C9_Witness ==
    /\ \E t \in Tabs :
        /\ page[t].last.what = "message"
        /\ IsNotification(page[t].last.event, "disableDarkMode")
        /\ page[t].last.before = DarkStyle
        /\ Style(page[t]) = LightStyle
        /\ events = 2

\* C10: The message listener leaves the style as it was for every message
\* that fails one of the checks: it comes from the page's own window, its
\* data carries the marker 'toothlit-background', and its action is
\* 'enableDarkMode' or 'disableDarkMode'.
C10_ListenerChecks ==
    \A t \in Tabs :
        ( /\ page[t].last.what = "message"
          /\ ~IsNotification(page[t].last.event, "enableDarkMode")
          /\ ~IsNotification(page[t].last.event, "disableDarkMode") )
        => Style(page[t]) = page[t].last.before

\* a Dark page has handled a message of another window that carries the
\* marker and asks to disable
C10_Witness ==
    \E t \in Tabs :
        /\ page[t].last.what = "message"
        /\ page[t].last.event.src = "other"
        /\ page[t].last.event.hasData
        /\ page[t].last.event.source = "toothlit-background"
        /\ page[t].last.event.action = "disableDarkMode"
        /\ page[t].last.before = DarkStyle
        /\ Style(page[t]) = DarkStyle

(* ---------------------------------------------------------------------- *)
(* Properties across the two contexts                                      *)
(* ---------------------------------------------------------------------- *)
\* the message listener has just changed the style of tab t's page
Transition(t) ==
    /\ page[t].last.what = "message"
    /\ Style(page[t]) # page[t].last.before

\* C11: Page scripts cannot forge toggles: every Light->Dark or Dark->Light
\* transition that a message causes is caused by a notification the toggle
\* controller posted for a click on that tab; a message a script of the page
\* posted on the page's own window causes no transition.
C11_NoForgedToggle ==
    \A t \in Tabs :
        Transition(t) => page[t].last.event.from = "controller"

\* the step is tab t's startup read being fulfilled
StartupFulfilled(t) ==
    page[t].startup = "pending" /\ page'[t].startup = "fulfilled"

\* the step is the startup callback of tab t's page, and nothing has acted
\* on the document since it was loaded
StartupAppliesFresh(t) ==
    /\ page[t].startup = "fulfilled"
    /\ page'[t].startup = "done"
    /\ page[t].last.what = "none"

\* C12: On a fresh page load with no notification delivered, the startup
\* read is fulfilled with the persisted record, and when it resolves the
\* page is Dark if the map it read holds true for the page's hostname and
\* Light if the entry is absent or false; if the read fails the page stays
\* Light.
C12_StartupCheck ==
    /\ [][ \A t \in Tabs :
             /\ StartupFulfilled(t) => page'[t].settings = storage
             /\ StartupAppliesFresh(t) =>
                  IF Contains(page[t].settings, Hostname(tabUrl[t]), TRUE)
                  THEN Dark(page'[t])
                  ELSE Light(page'[t]) ]_vars
    /\ [](\A t \in Tabs :
            (page[t].startup = "failed" /\ page[t].last.what = "none")
            => Light(page[t]))

\* a click has switched the domain on, the tab was reloaded, and the new
\* page went Dark by its startup check
C12_Witness ==
    \E t \in Tabs :
        /\ lastEvent.kind = "reload" /\ lastEvent.tab = t
        /\ Hostname(tabUrl[t]) \in Domains
        /\ toggles[Hostname(tabUrl[t])].n = 1
        /\ Contains(storage, Hostname(tabUrl[t]), TRUE)
        /\ page[t].startup = "done"
        /\ page[t].last.what = "startup"
        /\ page[t].last.before = LightStyle
        /\ Dark(page[t])
        /\ inbox[t] = <<>>

\* C13: The icon always reflects the stored state of the tab's domain: in
\* every state where no background invocation is in progress, every tab that
\* has finished loading a URL resolving to a domain D shows the 'on' icon iff
\* the persisted map holds true for D.  (Stated here for the behaviours in
\* which no host operation has failed.)
C13_IconReflectsStore ==
    (NoneInFlight /\ failures = <<>>) =>
        \A t \in loaded :
            ~Falsy(getDomainFromUrl(tabUrl[t])) =>
                (icon[t] = ICON_ON <=> StoredState(getDomainFromUrl(tabUrl[t])))

\* all that the environment has done so far are clicks on tabs showing
\* domain d, and no host operation has failed
OnlyClicksFor(d) ==
    /\ d \in Domains
    /\ events = toggles[d].n
    /\ failures = <<>>

\* the click handlers have completed, the startup check of tab t's page has
\* completed and the page has processed every message
Quiescent(t) ==
    /\ NoneInFlight
    /\ page[t].startup = "done"
    /\ inbox[t] = <<>>

\* C14: Push plus pull-on-load is eventually consistent for the clicked tab:
\* for every interleaving of the page's startup read with click handlers on
\* that tab, once the handlers and the startup read have completed without
\* failure and every notification has been processed, the page is Dark iff
\* the persisted map holds true for its domain.
C14_EventuallyConsistent ==
    \A t \in Tabs :
        (OnlyClicksFor(Hostname(tabUrl[t])) /\ Quiescent(t))
        => (Dark(page[t]) <=> StoredState(Hostname(tabUrl[t])))

(* ---------------------------------------------------------------------- *)
(* Properties of the domain resolver                                       *)
(* ---------------------------------------------------------------------- *)
\* the inputs by kind: malformed or not a URL at all; well formed without a
\* hostname (an internal page); the others name a host
MalformedUrls == {UrlNoHost, UrlNotUrl}
HostlessUrls  == {UrlBlank}

\* a listener has called getDomainFromUrl with the URL of the event's tab
Resolved ==
    \/ lastEvent.kind = "click"
    \/ /\ lastEvent.kind = "updated"
       /\ UpdateActs(lastEvent.status, lastEvent.hasUrl)

\* C15 as stated: getDomainFromUrl returns null for every input that is
\* malformed, is not a URL, or is a well-formed URL lacking a hostname, and
\* a non-null hostname otherwise.
C15_ResolverNull ==
    Resolved =>
        IF tabUrl[lastEvent.tab] \in MalformedUrls \cup HostlessUrls
        THEN lastEvent.domain = Null
        ELSE lastEvent.domain \in Domains

\* C15, amended: getDomainFromUrl returns null for every input that is
\* malformed or not a URL, the empty string for a well-formed URL lacking a
\* hostname, and a non-null, non-empty hostname otherwise.
C15_Resolver ==
    Resolved =>
        IF tabUrl[lastEvent.tab] \in MalformedUrls
        THEN lastEvent.domain = Null
        ELSE IF tabUrl[lastEvent.tab] \in HostlessUrls
        THEN lastEvent.domain = ""
        ELSE lastEvent.domain \in Domains

\* the click listener has resolved about:blank to the empty string
C15_Witness ==
    /\ lastEvent.kind = "click"
    /\ tabUrl[lastEvent.tab] = UrlBlank
    /\ lastEvent.domain = ""
    /\ lastEvent.domain # Null

(* ---------------------------------------------------------------------- *)
(* Failures                                                                *)
(* ---------------------------------------------------------------------- *)
\* the startup check of tab t's page is under way / is over
StartupUnderWay(t) == page[t].startup \in {"pending", "fulfilled"}
StartupOver(t)     == page[t].startup \in {"done", "failed"}

SetAttemptSettles(h) ==
    \/ handler[h].pc = "set_write"
    \/ handler[h].pc = "set_read" /\ failures' = Append(failures, "set_read")

\* the storage.set of slot h's setDomainState has succeeded
WriteSucceeded(h) ==
    /\ handler[h].writes = 1
    /\ handler[h].failed \cap {"set_read", "set_write"} = {}

\* C17: Within one click handler the steps happen in the order read, persist
\* the inverted state, update the icon, deliver the notification:
\* setDomainState is entered when getDomainState's read settles, updateIcon
\* is issued only in the step that settles the storage write attempt,
\* executeScript only in the step that settles setIcon; and when the
\* notification of a click whose write succeeded is posted, the persisted map
\* had held that click's new value for its domain.
C17_ClickOrder ==
    [][ \A h \in Handlers :
          (handler[h].kind = "click" /\ Moves(h)) =>
            /\ handler'[h].reads > handler[h].reads
                 => /\ handler[h].pc = "get_read"
                    /\ handler'[h].newState = ~handler'[h].currentState
            /\ handler'[h].writes > handler[h].writes
                 => handler[h].pc = "set_read"
            /\ handler'[h].iconCalls > handler[h].iconCalls
                 => SetAttemptSettles(h)
            /\ handler'[h].execCalls > handler[h].execCalls
                 => handler[h].pc = "icon"
            /\ inbox' # inbox
                 => /\ handler[h].pc = "exec"
                    /\ handler[h].iconCalls = 1
                    /\ WriteSucceeded(h) => handler[h].stored ]_vars

\* a page has processed the notification of a click that wrote true, with
\* the store and the icon already showing it
C17_Witness ==
    \E t \in Tabs :
        /\ page[t].last.what = "message"
        /\ page[t].last.event.from = "controller"
        /\ page[t].last.event.action = "enableDarkMode"
        /\ page[t].last.before = LightStyle
        /\ lastWrite = [domain |-> Hostname(tabUrl[t]), value |-> TRUE]
        /\ lastSetter[Hostname(tabUrl[t])] # 0
        /\ icon[t] = ICON_ON
        /\ failures = <<>>

(* ---------------------------------------------------------------------- *)
(* Concurrent clicks                                                       *)
(* ---------------------------------------------------------------------- *)
\* every click so far was for domain d, every invocation has completed and
\* no host operation has failed
AllClicksCompleted(d) ==
    /\ NoneInFlight
    /\ failures = <<>>
    /\ \A e \in Domains \ {d} : toggles[e].n = 0

\* C18: Every click toggles: when n click handlers for the same domain D
\* have all completed without failure, however their storage reads and
\* writes interleaved, the persisted value of D is its initial value
\* inverted n times.
C18_EveryClickToggles ==
    \A d \in Domains :
        AllClicksCompleted(d) => StoredState(d) = toggles[d].want

(* ---------------------------------------------------------------------- *)
(* The two parts of the style override                                     *)
(* ---------------------------------------------------------------------- *)
\* C19: The two parts of the style override are applied and removed
\* together: in every state of a page the color-scheme property is set to
\* dark iff an element with the reserved id is present.
C19_NeverHalfApplied ==
    \A t \in Tabs :
        (page[t].colorScheme = "dark") <=> (page[t].links > 0)

\* a Light page has gone Dark by an enable notification, after an earlier
\* message
C19_Witness ==
    \E t \in Tabs :
        /\ page[t].last.what = "message"
        /\ IsNotification(page[t].last.event, "enableDarkMode")
        /\ page[t].last.before = LightStyle
        /\ page[t].colorScheme = "dark"
        /\ page[t].links = 1
        /\ page[t].startup = "done"
        /\ events = 2

(* ---------------------------------------------------------------------- *)
(* The tab-updated handler                                                 *)
(* ---------------------------------------------------------------------- *)
\* the step is the dispatch of a tab-updated event
UpdatedFires ==
    /\ events' = events + 1
    /\ lastEvent'.kind = "updated"

\* the event reports 'complete' for a tab that has a URL resolving to a
\* domain
CompleteWithDomain ==
    /\ lastEvent'.status = "complete"
    /\ lastEvent'.hasUrl
    /\ ~NoDomain(tabUrl[lastEvent'.tab])

\* C20: The tab-updated handler is read-only with respect to preferences
\* and pages: none of its steps changes the persisted map or posts to a
\* page, and it never issues a storage write or a script injection; it goes
\* on to an icon update (for the event's tab) only when the event reports
\* status 'complete', the tab has a URL and the URL resolves to a domain,
\* and otherwise does nothing at all.
C20_UpdatedReadOnly ==
    [][ /\ \A h \in Handlers :
             (handler[h].kind = "updated" /\ Moves(h)) =>
               /\ UNCHANGED <<storage, page, inbox>>
               /\ handler'[h].writes = 0 /\ handler'[h].execCalls = 0
               /\ handler'[h].pc \in {"icon", "idle"}
               /\ \A t \in Tabs : t # handler[h].tab => icon'[t] = icon[t]
        /\ UpdatedFires =>
             /\ UNCHANGED <<storage, page, inbox, icon>>
             /\ IF CompleteWithDomain
                THEN \E h \in Handlers :
                        /\ handler'[h].kind = "updated"
                        /\ handler'[h].pc = "get_read"
                        /\ handler'[h].tab = lastEvent'.tab
                        /\ handler'[h].writes = 0
                ELSE handler' = handler ]_vars

\* a tab-updated handler has run to completion and set the 'on' icon for a
\* domain that is switched on
C20_Witness ==
    /\ lastEvent.kind = "updated" /\ lastEvent.acted
    /\ lastEvent.status = "complete" /\ lastEvent.hasUrl
    /\ NoneInFlight
    /\ events = 1 /\ failures = <<>>
    /\ icon[lastEvent.tab] = ICON_ON
    /\ Contains(storage, lastEvent.domain, TRUE)

====
